---- MODULE Spec2Model ----
(***************************************************************************)
(* A model of the wasm-bindgen-test runtime (crates/test/src/rt/mod.rs):   *)
(* Context (configuration, run, execute), the ExecuteTests future, the     *)
(* TestFuture wrapper with the CURRENT_OUTPUT capture cell, and State's    *)
(* retirement and reporting.                                               *)
(*                                                                         *)
(* Text is a sequence of one-character strings, so that str::contains and  *)
(* str::split_once are computed rather than assumed.  Captured console     *)
(* streams are sequences of tokens (a stringified value, " " or "\n").     *)
(***************************************************************************)
EXTENDS Naturals, Sequences, FiniteSets, TLC

VARIABLES
    filter,           \* State.filter: Option<String>
    include_ignored,  \* State.include_ignored
    skip,             \* State.skip: Vec<String>
    succeeded,        \* State.succeeded
    filtered,         \* State.filtered
    ignored,          \* State.ignored
    failures,         \* State.failures: Vec<(Test, Failure)>
    remaining,        \* State.remaining: Vec<Test> (test ids)
    running,          \* State.running: Vec<Test> (test ids)
    formatter,        \* the lines handed to State.formatter, in order
    tests,            \* the Test values built by execute: id -> [name, should_panic]
    output,           \* each Test's Rc<RefCell<Output>>: id -> Output
    current_output,   \* CURRENT_OUTPUT: 0 when not set, else the id whose buffer is installed
    cap,              \* the value CONCURRENCY is built with (the source sets 1)
    pc,               \* where the program is
    todo,             \* Context::run: descriptors of `tests` not yet invoked
    i,                \* ExecuteTests::poll: the index of the first loop
    test,             \* ExecuteTests::poll: the Test held in a local (0: none)
    from,             \* which loop of ExecuteTests::poll is polling `test`
    future_output,    \* TestFuture::poll: the local future_output
    invoked,          \* TestFuture::poll: the local result, what __wbg_test_invoke returned
    polled,           \* what the last TestFuture::poll returned to ExecuteTests::poll
    verdict,          \* what ExecuteTests resolved with ("none" before)
    suspended,        \* per test: how often its body has returned Pending
    emitted,          \* how many console calls have been made in this run
    calls,            \* history: the descriptors invoked by run, in order
    resumed,          \* history: the tests polled so far by the resumption of
                      \* ExecuteTests::poll in progress (empty outside one)
    completed         \* history: the tests whose TestFuture::poll returned Ready,
                      \* in that order

vars == <<filter, include_ignored, skip, succeeded, filtered, ignored, failures,
          remaining, running, formatter, tests, output, current_output, cap, pc, todo,
          i, test, from, future_output, invoked, polled, verdict, suspended,
          emitted, calls, resumed, completed>>

-----------------------------------------------------------------------------
(* Bounds of the model *)

MaxTests == 3      \* Spec: descriptors handed to one run
MaxRegs == 2       \* SpecReg: descriptors handed to one run
MaxOutTests == 2   \* SpecOut: descriptors handed to one run
MaxCap == 2        \* values of the concurrency cap explored (1..MaxCap)
MaxSuspend == 2    \* times one test body returns Pending
MaxEmit == 2       \* SpecOut: console calls made during one run

(* src/crates/test/src/rt/mod.rs:112 *)
CONCURRENCY == 1

-----------------------------------------------------------------------------
(* Text *)

Sep == <<":", ":">>

\* whether sub occurs in s starting at position k (1-based)
OccursAt(s, sub, k) ==
    /\ k + Len(sub) - 1 <= Len(s)
    /\ \A j \in 1..Len(sub) : s[k + j - 1] = sub[j]

\* Variant of Contains: the pattern is looked for at the start of s only
ContainsAtStart(s, sub) == OccursAt(s, sub, 1)

\* str::contains with a &str pattern
Contains(s, sub) == \E k \in 1..(Len(s) + 1) : OccursAt(s, sub, k)

\* str::split_once: the text before and after the first occurrence of delim;
\* [some |-> FALSE] (None) when delim does not occur.
SplitOnce(s, delim) ==
    IF Contains(s, delim)
    THEN LET k == CHOOSE k \in 1..(Len(s) + 1) :
                    /\ OccursAt(s, delim, k)
                    /\ \A j \in 1..(k - 1) : ~OccursAt(s, delim, j)
         IN [some |-> TRUE,
             before |-> SubSeq(s, 1, k - 1),
             after |-> SubSeq(s, k + Len(delim), Len(s))]
    ELSE [some |-> FALSE, before |-> <<>>, after |-> <<>>]

-----------------------------------------------------------------------------
(* Values *)

NoFilter == [some |-> FALSE, val |-> <<>>]
SomeFilter(s) == [some |-> TRUE, val |-> s]

\* Option<Option<&'static str>> for should_panic and ignore:
\* "none" is None, "bare" is Some(None), "with" is Some(Some(text)).
OptNone == [kind |-> "none", text |-> <<>>]
OptBare == [kind |-> "bare", text |-> <<>>]
OptWith(s) == [kind |-> "with", text |-> s]

\* struct Output, Default::default() but for should_panic
NewOutput(sp) ==
    [debug |-> <<>>, log |-> <<>>, info |-> <<>>, warn |-> <<>>, error |-> <<>>,
     panic |-> <<>>, should_panic |-> sp]

\* What the formatter is handed: Formatter::log_test(name, result) and
\* Formatter::writeln(line).  A log_test line carries TestResult's Display.
Display(result) ==
    CASE result.kind = "Ok" -> "ok"
      [] result.kind = "Err" -> "FAIL"
      [] result.kind = "Ignored" -> IF result.reason.kind = "with"
                                    THEN "ignored, {}" ELSE "ignored"

LogTestLine(name, result) ==
    [line |-> "log_test", name |-> name, text |-> Display(result),
     arg |-> IF result.kind = "Ignored" THEN result.reason.text ELSE <<>>,
     nums |-> <<>>]

WritelnLine(text, name, arg, nums) ==
    [line |-> "writeln", name |-> name, text |-> text, arg |-> arg, nums |-> nums]

\* JS values: what a test returns as its error, and what console calls are given
JsNull == [kind |-> "null", s |-> ""]
JsStr(x) == [kind |-> "str", s |-> x]

\* the imported JS function String(val)
Stringify(val) == IF val.kind = "null" THEN "null" ELSE val.s

\* TestFuture::poll's locals: future_output: Option<Poll<Result<(), JsValue>>>,
\* and result: Result<(), JsValue> (the variable invoked)
FoNone == [some |-> FALSE, ready |-> FALSE, ok |-> FALSE, err |-> ""]
FoPending == [some |-> TRUE, ready |-> FALSE, ok |-> FALSE, err |-> ""]
FoReadyOk == [some |-> TRUE, ready |-> TRUE, ok |-> TRUE, err |-> ""]
FoReadyErr(e) == [some |-> TRUE, ready |-> TRUE, ok |-> FALSE, err |-> e]
InvokeOk == [ok |-> TRUE, err |-> ""]
InvokeErr(e) == [ok |-> FALSE, err |-> e]

\* Poll<Result<(), JsValue>> as TestFuture::poll returns it
PollNone == [kind |-> "none", ok |-> FALSE, err |-> ""]
PollPending == [kind |-> "Pending", ok |-> FALSE, err |-> ""]
PollReadyOk == [kind |-> "Ready", ok |-> TRUE, err |-> ""]
PollReadyErr(e) == [kind |-> "Ready", ok |-> FALSE, err |-> e]
PollThrow == [kind |-> "throw", ok |-> FALSE, err |-> "invalid poll state"]

ResOk == [kind |-> "Ok", err |-> "", reason |-> OptNone]
ResErr(e) == [kind |-> "Err", err |-> e, reason |-> OptNone]
ResIgnored(r) == [kind |-> "Ignored", err |-> "", reason |-> r]

-----------------------------------------------------------------------------
(* The inputs explored.  Spec explores the scheduler, SpecReg the            *)
(* registration policy of Context::execute, SpecOut the output capture.     *)

\* Spec: qualified test names as the macro passes them (module path, "::",
\* function), one filter, and the annotations that decide retirement
Filters == { SomeFilter(<<"a">>) }
Descriptors ==
    [name : { <<"m", ":", ":", "a">>, <<"a", ":", ":", "b">> },
     should_panic : { OptNone, OptBare },
     ignore : { OptNone, OptBare }]
\* the error values a body returns, and the exception a trapped panic becomes
JsErrors == { "e" }
TrapError == "unreachable"
\* PanicInfo::to_string() of the panics explored
PanicMessages == { <<"b">> }

\* SpecReg
RegFilters == { NoFilter, SomeFilter(<<>>), SomeFilter(<<"a">>), SomeFilter(<<"m">>) }
RegSkipLists == { <<>>, << <<"m">> >>, << <<"b", ":">>, <<"b">> >> }
RegDescriptors ==
    [name : { <<"m", ":", ":", "a", "b">>,
              <<"a", ":", ":", "b">>,
              <<"m", ":", ":", "b", ":", ":", "a">> },
     should_panic : { OptNone, OptWith(<<"a">>) },
     ignore : { OptNone, OptBare, OptWith(<<"r">>) }]

\* SpecOut: the args arrays console calls are made with
ArgLists == { << JsStr("x") >>, << JsNull, JsStr("y") >> }
OutDescriptors ==
    [name : { <<"m", ":", ":", "a">> },
     should_panic : { OptNone, OptWith(<<"a">>) },
     ignore : { OptNone }]
OutPanicMessages == { <<"b">>, <<"b", "a">> }

-----------------------------------------------------------------------------
(* Context::new *)

\* Variant of Init: the cap may also be built as 0
InitCapZero ==
    /\ filter = NoFilter
    /\ include_ignored = FALSE
    /\ skip = <<>>
    /\ succeeded = 0
    /\ filtered = 0
    /\ ignored = 0
    /\ failures = <<>>
    /\ remaining = <<>>
    /\ running = <<>>
    /\ formatter = <<>>
    /\ tests = <<>>
    /\ output = <<>>
    /\ current_output = 0
    /\ cap \in 0..MaxCap
    /\ pc = "new"
    /\ todo = 0
    /\ i = 0
    /\ test = 0
    /\ from = "none"
    /\ future_output = FoNone
    /\ invoked = InvokeOk
    /\ polled = PollNone
    /\ verdict = "none"
    /\ suspended = <<>>
    /\ emitted = 0
    /\ calls = <<>>
    /\ resumed = {}
    /\ completed = <<>>

Init ==
    /\ filter = NoFilter
    /\ include_ignored = FALSE
    /\ skip = <<>>
    /\ succeeded = 0
    /\ filtered = 0
    /\ ignored = 0
    /\ failures = <<>>
    /\ remaining = <<>>
    /\ running = <<>>
    /\ formatter = <<>>
    /\ tests = <<>>
    /\ output = <<>>
    /\ current_output = 0
    /\ cap \in CONCURRENCY..MaxCap
    /\ pc = "new"
    /\ todo = 0
    /\ i = 0
    /\ test = 0
    /\ from = "none"
    /\ future_output = FoNone
    /\ invoked = InvokeOk
    /\ polled = PollNone
    /\ verdict = "none"
    /\ suspended = <<>>
    /\ emitted = 0
    /\ calls = <<>>
    /\ resumed = {}
    /\ completed = <<>>

-----------------------------------------------------------------------------
(* Context::include_ignored, Context::skip, Context::filter *)

IncludeIgnored(b) ==
    /\ pc = "new"
    /\ include_ignored' = b
    /\ UNCHANGED <<filter, skip, succeeded, filtered, ignored, failures, remaining,
                   running, formatter, tests, output, current_output, cap, pc,
                   todo, i, test, from, future_output, invoked, polled, verdict,
                   suspended, emitted, calls,
                   resumed, completed>>

Skip(list) ==
    /\ pc = "new"
    /\ skip' = list
    /\ UNCHANGED <<filter, include_ignored, succeeded, filtered, ignored, failures,
                   remaining, running, formatter, tests, output, current_output,
                   cap, pc, todo, i, test, from, future_output, invoked, polled, verdict,
                   suspended, emitted, calls,
                   resumed, completed>>

Filter(f) ==
    /\ pc = "new"
    /\ filter' = f
    /\ UNCHANGED <<include_ignored, skip, succeeded, filtered, ignored, failures,
                   remaining, running, formatter, tests, output, current_output,
                   cap, pc, todo, i, test, from, future_output, invoked, polled, verdict,
                   suspended, emitted, calls,
                   resumed, completed>>

-----------------------------------------------------------------------------
(* Context::run, up to the loop over the descriptors *)

Run(n) ==
    /\ pc = "new"
    /\ formatter' = Append(formatter,
            WritelnLine("running {} {}", <<>>,
                        IF n = 1 THEN <<"test">> ELSE <<"tests">>, <<n>>))
    /\ todo' = n
    /\ pc' = "run"
    /\ UNCHANGED <<filter, include_ignored, skip, succeeded, filtered, ignored,
                   failures, remaining, running, tests, output, current_output,
                   cap, i, test, from, future_output, invoked, polled, verdict, suspended,
                   emitted, calls,
                   resumed, completed>>

-----------------------------------------------------------------------------
(* Context::execute, as called by execute_sync and execute_async from a     *)
(* descriptor that run invokes.  Every name the macro passes holds "::".    *)

\* Variant of NormalizedName: the module path is not split away
NormalizedNameWhole(raw) == raw

\* let name = name.split_once("::").unwrap().1
NormalizedName(raw) == SplitOnce(raw, Sep).after

\* Variant of FilteredOut: the filter is not applied
FilteredOutNever(name) == FALSE

\* if let Some(filter) = &*filter { if !name.contains(filter) ..
FilteredOut(name) == filter.some /\ ~Contains(name, filter.val)

\* Variant of Skipped: only the first skip substring is looked at
SkippedFirstOnly(name) == Len(skip) > 0 /\ Contains(name, skip[1])

Skipped(name) == \E k \in 1..Len(skip) : Contains(name, skip[k])

\* Variant of IsIgnored: include_ignored is not consulted
IsIgnoredAlways(ignore) == ignore.kind # "none"

IsIgnored(ignore) == ~include_ignored /\ ignore.kind # "none"

\* Variant of Push: the Test is inserted at the front of remaining
PushFront(id, name, should_panic) ==
    /\ output' = output @@ (id :> NewOutput(should_panic.kind # "none"))
    /\ tests' = tests @@ (id :> [name |-> name, should_panic |-> should_panic])
    /\ remaining' = <<id>> \o remaining
    /\ suspended' = suspended @@ (id :> 0)

\* self.state.remaining.borrow_mut().push(Test { .. })
Push(id, name, should_panic) ==
    /\ output' = output @@ (id :> NewOutput(should_panic.kind # "none"))
    /\ tests' = tests @@ (id :> [name |-> name, should_panic |-> should_panic])
    /\ remaining' = Append(remaining, id)
    /\ suspended' = suspended @@ (id :> 0)

Execute(d) ==
    /\ pc = "run"
    /\ todo > 0
    /\ todo' = todo - 1
    /\ calls' = Append(calls, d)
    /\ LET name == NormalizedName(d.name)
           id == Len(calls) + 1
       IN  IF FilteredOut(name)
           THEN /\ filtered' = filtered + 1
                /\ UNCHANGED <<ignored, formatter, output, tests, remaining,
                               suspended>>
           ELSE IF Skipped(name)
           THEN /\ filtered' = filtered + 1
                /\ UNCHANGED <<ignored, formatter, output, tests, remaining,
                               suspended>>
           ELSE IF IsIgnored(d.ignore)
           THEN /\ formatter' = Append(formatter,
                                       LogTestLine(name, ResIgnored(d.ignore)))
                /\ ignored' = ignored + 1
                /\ UNCHANGED <<filtered, output, tests, remaining, suspended>>
           ELSE /\ Push(id, name, d.should_panic)
                /\ UNCHANGED <<filtered, ignored, formatter>>
    /\ UNCHANGED <<filter, include_ignored, skip, succeeded, failures, running,
                   current_output, cap, pc, i, test, from, future_output, invoked, polled,
                   verdict, emitted,
                   resumed, completed>>

\* Variant of Spawn: ExecuteTests is spawned before the loop over the
\* descriptors has ended
SpawnEarly ==
    /\ pc = "run"
    /\ pc' = "spawned"
    /\ UNCHANGED <<filter, include_ignored, skip, succeeded, filtered, ignored,
                   failures, remaining, running, formatter, tests, output,
                   current_output, cap, todo, i, test, from, future_output, invoked,
                   polled, verdict, suspended, emitted, calls,
                   resumed, completed>>

\* Context::run, after the loop: future_to_promise(ExecuteTests(state))
Spawn ==
    /\ pc = "run"
    /\ todo = 0
    /\ pc' = "spawned"
    /\ UNCHANGED <<filter, include_ignored, skip, succeeded, filtered, ignored,
                   failures, remaining, running, formatter, tests, output,
                   current_output, cap, todo, i, test, from, future_output, invoked,
                   polled, verdict, suspended, emitted, calls,
                   resumed, completed>>

-----------------------------------------------------------------------------
(* The capture cell: scoped_thread_local!(static CURRENT_OUTPUT), whose     *)
(* set(&value, closure) installs value while closure runs.                  *)

NotSet == 0

\* the cell inside CURRENT_OUTPUT.set(&output, ..)
ScopedSetEnter(t) == t

\* Variant of ScopedSetExit: the cell keeps the value set installed
ScopedSetExitLeak(t) == t

\* the cell once CURRENT_OUTPUT.set(&output, ..) has returned
ScopedSetExit(t) == NotSet

-----------------------------------------------------------------------------
(* State::log_test_result *)

Failure(t, kind, e) == [test |-> t, failure |-> kind, err |-> e]

\* Variant of log_test_result: the should_panic annotation is not looked at
LogTestResultPlain(t, res) ==
    /\ formatter' = Append(formatter, LogTestLine(tests[t].name, res))
    /\ IF res.kind = "Ok"
       THEN succeeded' = succeeded + 1 /\ UNCHANGED failures
       ELSE IF res.kind = "Err"
       THEN failures' = Append(failures, Failure(t, "Error", res.err))
            /\ UNCHANGED succeeded
       ELSE UNCHANGED <<succeeded, failures>>

\* Variant of log_test_result: a failure record is put in front of failures
LogTestResultPrepend(t, res) ==
    LET should_panic == tests[t].should_panic
        name == tests[t].name
    IN  IF should_panic.kind # "none"
        THEN IF res.kind = "Err"
             THEN IF should_panic.kind = "with"
                     /\ ~Contains(output[t].panic, should_panic.text)
                  THEN /\ formatter' = Append(formatter, LogTestLine(name, ResErr("null")))
                       /\ failures' = <<Failure(t, "ShouldPanicExpected", "")>> \o failures
                       /\ UNCHANGED succeeded
                  ELSE /\ formatter' = Append(formatter, LogTestLine(name, ResOk))
                       /\ succeeded' = succeeded + 1
                       /\ UNCHANGED failures
             ELSE /\ formatter' = Append(formatter, LogTestLine(name, ResErr("null")))
                  /\ failures' = <<Failure(t, "ShouldPanic", "")>> \o failures
                  /\ UNCHANGED succeeded
        ELSE /\ formatter' = Append(formatter, LogTestLine(name, res))
             /\ IF res.kind = "Ok"
                THEN succeeded' = succeeded + 1 /\ UNCHANGED failures
                ELSE IF res.kind = "Err"
                THEN failures' = <<Failure(t, "Error", res.err)>> \o failures
                     /\ UNCHANGED succeeded
                ELSE UNCHANGED <<succeeded, failures>>

LogTestResult(t, res) ==
    LET should_panic == tests[t].should_panic
        name == tests[t].name
    IN  IF should_panic.kind # "none"
        THEN IF res.kind = "Err"
             THEN IF should_panic.kind = "with"
                     /\ ~Contains(output[t].panic, should_panic.text)
                  THEN /\ formatter' = Append(formatter, LogTestLine(name, ResErr("null")))
                       /\ failures' = Append(failures, Failure(t, "ShouldPanicExpected", ""))
                       /\ UNCHANGED succeeded
                  ELSE /\ formatter' = Append(formatter, LogTestLine(name, ResOk))
                       /\ succeeded' = succeeded + 1
                       /\ UNCHANGED failures
             ELSE /\ formatter' = Append(formatter, LogTestLine(name, ResErr("null")))
                  /\ failures' = Append(failures, Failure(t, "ShouldPanic", ""))
                  /\ UNCHANGED succeeded
        ELSE /\ formatter' = Append(formatter, LogTestLine(name, res))
             /\ IF res.kind = "Ok"
                THEN succeeded' = succeeded + 1 /\ UNCHANGED failures
                ELSE IF res.kind = "Err"
                THEN failures' = Append(failures, Failure(t, "Error", res.err))
                     /\ UNCHANGED succeeded
                ELSE UNCHANGED <<succeeded, failures>>

\* Variant of IntoTestResult: every result converts to TestResult::Ok
IntoTestResultOk(p) == ResOk

\* impl From<Result<(), JsValue>> for TestResult, applied to a Ready poll
IntoTestResult(p) == IF p.ok THEN ResOk ELSE ResErr(p.err)

-----------------------------------------------------------------------------
(* State::print_results, State::print_failure, tab *)

RECURSIVE TabRec(_, _)
TabRec(s, atStart) ==
    IF s = <<>>
    THEN IF atStart THEN <<>> ELSE <<"\n">>
    ELSE IF Head(s) = "\n"
         THEN (IF atStart THEN <<"    ", "\n">> ELSE <<"\n">>) \o TabRec(Tail(s), TRUE)
         ELSE (IF atStart THEN <<"    ", Head(s)>> ELSE <<Head(s)>>)
              \o TabRec(Tail(s), FALSE)

\* tab(s): every line of s indented by four spaces and ended by "\n"
Tab(s) == TabRec(s, TRUE)

\* State::accumulate_console_output: what it appends to logs
AccumulateConsoleOutput(which, out) ==
    IF out = <<>> THEN <<>> ELSE <<which, " output:", "\n">> \o Tab(out) \o <<"\n">>

\* State::print_failure: the text handed to writeln
PrintFailure(f) ==
    LET out == output[f.test]
        name == tests[f.test].name
        note == CASE f.failure = "ShouldPanic" ->
                       <<"note: ">> \o name \o <<" did not panic as expected", "\n", "\n">>
                  [] f.failure = "ShouldPanicExpected" ->
                       <<"note: panic did not contain expected string", "\n",
                         "      panic message: ">> \o out.panic \o <<",", "\n",
                         " expected substring: ">>
                       \o tests[f.test].should_panic.text \o <<"\n", "\n">>
                  [] OTHER -> <<>>
        logs == note
                \o AccumulateConsoleOutput("debug", out.debug)
                \o AccumulateConsoleOutput("log", out.log)
                \o AccumulateConsoleOutput("info", out.info)
                \o AccumulateConsoleOutput("warn", out.warn)
                \o AccumulateConsoleOutput("error", out.error)
                \o (IF f.failure = "Error"
                    THEN <<"JS exception that was thrown:", "\n">>
                         \o Tab(<<"stringify_error", f.err>>)
                    ELSE <<>>)
    IN  WritelnLine("---- {} output ----\n{}", name, Tab(logs), <<>>)

\* the lines State::print_results writes (the elapsed time, when a timer
\* exists, is left out of the summary line)
PrintResults ==
    (IF Len(failures) > 0
     THEN << WritelnLine("\nfailures:\n", <<>>, <<>>, <<>>) >>
          \o [k \in 1..Len(failures) |-> PrintFailure(failures[k])]
          \o << WritelnLine("failures:\n", <<>>, <<>>, <<>>) >>
          \o [k \in 1..Len(failures) |->
                WritelnLine("    {}", tests[failures[k].test].name, <<>>, <<>>)]
     ELSE <<>>)
    \o << WritelnLine("", <<>>, <<>>, <<>>),
          WritelnLine("test result: {}. {} passed; {} failed; {} ignored; {} filtered out{}\n",
                      <<>>,
                      IF Len(failures) = 0 THEN <<"ok">> ELSE <<"FAILED">>,
                      <<succeeded, Len(failures), ignored, filtered>>) >>

-----------------------------------------------------------------------------
(* TestFuture::poll *)

\* the TestFuture being polled: running[i] in the first loop of
\* ExecuteTests::poll, the local `test` in the second
Polling == IF from = "loop1" THEN running[i] ELSE test

\* Variant of TestFutureEnter: every wrapper installs the Output of the first
\* Test built instead of its own
TestFutureEnterShared(t) ==
    /\ future_output' = FoNone
    /\ invoked' = InvokeOk
    /\ current_output' = ScopedSetEnter(CHOOSE u \in DOMAIN output :
                                            \A v \in DOMAIN output : u <= v)
    /\ polled' = PollNone
    /\ resumed' = resumed \cup {t}
    /\ pc' = "body"

\* entry: CURRENT_OUTPUT.set(&output, ..) is entered and the body is invoked
\* through __wbg_test_invoke
TestFutureEnter(t) ==
    /\ future_output' = FoNone
    /\ invoked' = InvokeOk
    /\ current_output' = ScopedSetEnter(t)
    /\ polled' = PollNone
    /\ resumed' = resumed \cup {t}
    /\ pc' = "body"

\* Variant of TestFutureMatch: the arm (Err(e), _) is missing
TestFutureMatchNoCatch(res, fo) ==
    IF fo.some /\ fo.ready THEN (IF fo.ok THEN PollReadyOk ELSE PollReadyErr(fo.err))
    ELSE IF fo.some THEN PollPending
    ELSE PollThrow

\* match (result, future_output)
TestFutureMatch(res, fo) ==
    IF fo.some /\ fo.ready THEN (IF fo.ok THEN PollReadyOk ELSE PollReadyErr(fo.err))
    ELSE IF fo.some THEN PollPending
    ELSE IF ~res.ok THEN PollReadyErr(res.err)
    ELSE PollThrow

\* exit: __wbg_test_invoke has returned, CURRENT_OUTPUT.set returns, and the
\* match decides what poll returns to ExecuteTests::poll
TestFutureReturn ==
    /\ pc = "invoked"
    /\ current_output' = ScopedSetExit(current_output)
    /\ polled' = TestFutureMatch(invoked, future_output)
    /\ completed' = IF TestFutureMatch(invoked, future_output).kind = "Ready"
                    THEN Append(completed, Polling) ELSE completed
    /\ pc' = IF TestFutureMatch(invoked, future_output).kind = "throw" THEN "thrown"
             ELSE IF from = "loop1" THEN "got1" ELSE "got2"
    /\ UNCHANGED <<filter, include_ignored, skip, succeeded, filtered, ignored,
                   failures, remaining, running, formatter, tests, output, cap,
                   todo, i, test, from, future_output, invoked, verdict,
                   suspended, emitted, calls, resumed>>

-----------------------------------------------------------------------------
(* One resumption of a test body, run inside __wbg_test_invoke *)

\* the body's future returns Poll::Pending
BodyPending ==
    /\ pc = "body"
    /\ suspended[Polling] < MaxSuspend
    /\ suspended' = [suspended EXCEPT ![Polling] = @ + 1]
    /\ future_output' = FoPending
    /\ pc' = "invoked"
    /\ UNCHANGED <<filter, include_ignored, skip, succeeded, filtered, ignored,
                   failures, remaining, running, formatter, tests, output,
                   current_output, cap, todo, i, test, from, invoked, polled,
                   verdict, emitted, calls,
                   resumed, completed>>

\* the body's future returns Poll::Ready(Ok(()))
BodyReadyOk ==
    /\ pc = "body"
    /\ future_output' = FoReadyOk
    /\ pc' = "invoked"
    /\ UNCHANGED <<filter, include_ignored, skip, succeeded, filtered, ignored,
                   failures, remaining, running, formatter, tests, output,
                   current_output, cap, todo, i, test, from, invoked, polled,
                   verdict, suspended, emitted, calls,
                   resumed, completed>>

\* the body's future returns Poll::Ready(Err(e))
BodyReadyErr(e) ==
    /\ pc = "body"
    /\ future_output' = FoReadyErr(e)
    /\ pc' = "invoked"
    /\ UNCHANGED <<filter, include_ignored, skip, succeeded, filtered, ignored,
                   failures, remaining, running, formatter, tests, output,
                   current_output, cap, todo, i, test, from, invoked, polled,
                   verdict, suspended, emitted, calls,
                   resumed, completed>>

\* panic_handling(message), as far as the Output is concerned
PanicHandling(message) ==
    output' = [output EXCEPT ![current_output].panic = @ \o message]

\* the body panics: the hook runs panic_handling, the Wasm code traps and
\* __wbg_test_invoke (catch) returns the exception as Err
BodyPanic(message) ==
    /\ pc = "body"
    /\ PanicHandling(message)
    /\ invoked' = InvokeErr(TrapError)
    /\ pc' = "invoked"
    /\ UNCHANGED <<filter, include_ignored, skip, succeeded, filtered, ignored,
                   failures, remaining, running, formatter, tests,
                   current_output, cap, todo, i, test, from, future_output,
                   polled, verdict, suspended, emitted, calls,
                   resumed, completed>>

-----------------------------------------------------------------------------
(* record and the five __wbgtest_console_* entry points.  The console is    *)
(* called by a test body while it is resumed or by JS running while no     *)
(* test is.                                                                 *)

RECURSIVE Joined(_)
Joined(args) ==
    IF args = <<>> THEN <<>>
    ELSE IF Len(args) = 1 THEN << Stringify(args[1]) >>
    ELSE << Stringify(Head(args)), " " >> \o Joined(Tail(args))

\* what record pushes onto dst for args
RecordText(args) == Joined(args) \o << "\n" >>

\* Variant of Record: the text replaces what the stream held
RecordReplace(args, dst) ==
    IF current_output = NotSet
    THEN UNCHANGED output
    ELSE output' = [output EXCEPT ![current_output][dst] = RecordText(args)]

\* Variant of Record: without an installed Output the text goes to the Output
\* of the Test built last
RecordStray(args, dst) ==
    IF current_output = NotSet
    THEN IF DOMAIN output = {}
         THEN UNCHANGED output
         ELSE LET last == CHOOSE u \in DOMAIN output : \A v \in DOMAIN output : v <= u
              IN  output' = [output EXCEPT ![last][dst] = @ \o RecordText(args)]
    ELSE output' = [output EXCEPT ![current_output][dst] = @ \o RecordText(args)]

\* record(args, dst)
Record(args, dst) ==
    IF current_output = NotSet
    THEN UNCHANGED output
    ELSE output' = [output EXCEPT ![current_output][dst] = @ \o RecordText(args)]

ConsoleCall(args, dst) ==
    /\ pc \in {"body", "spawned", "pending"}
    /\ emitted < MaxEmit
    /\ emitted' = emitted + 1
    /\ Record(args, dst)
    /\ UNCHANGED <<filter, include_ignored, skip, succeeded, filtered, ignored,
                   failures, remaining, running, formatter, tests,
                   current_output, cap, pc, todo, i, test, from, future_output,
                   invoked, polled, verdict, suspended, calls,
                   resumed, completed>>

__wbgtest_console_log(args) == ConsoleCall(args, "log")
__wbgtest_console_debug(args) == ConsoleCall(args, "debug")
__wbgtest_console_info(args) == ConsoleCall(args, "info")
__wbgtest_console_warn(args) == ConsoleCall(args, "warn")
__wbgtest_console_error(args) == ConsoleCall(args, "error")

-----------------------------------------------------------------------------
(* ExecuteTests::poll *)

\* Variant of Remove: the first entry is removed, whatever the index
RemoveFirst(s, k) == Tail(s)

\* running.remove(i)
Remove(s, k) == SubSeq(s, 1, k - 1) \o SubSeq(s, k + 1, Len(s))

\* Variant of PollBegin: the first loop starts below the last entry of running
PollBeginBelowLast ==
    /\ pc \in {"spawned", "pending"}
    /\ i' = IF Len(running) = 0 THEN 0 ELSE Len(running) - 1
    /\ pc' = IF Len(running) <= 1 THEN "loop2" ELSE "loop1"
    /\ UNCHANGED <<filter, include_ignored, skip, succeeded, filtered, ignored,
                   failures, remaining, running, formatter, tests, output,
                   current_output, cap, todo, test, from, future_output,
                   invoked, polled, verdict, suspended, emitted, calls,
                   resumed, completed>>

\* the host polls the future: the first time after run, later after a wake
PollBegin ==
    /\ pc \in {"spawned", "pending"}
    /\ i' = Len(running)
    /\ pc' = IF Len(running) = 0 THEN "loop2" ELSE "loop1"
    /\ UNCHANGED <<filter, include_ignored, skip, succeeded, filtered, ignored,
                   failures, remaining, running, formatter, tests, output,
                   current_output, cap, todo, test, from, future_output,
                   invoked, polled, verdict, suspended, emitted, calls,
                   resumed, completed>>

\* first loop: running[i].future.as_mut().poll(cx)
Loop1Poll ==
    /\ pc = "loop1"
    /\ from' = "loop1"
    /\ TestFutureEnter(running[i])
    /\ UNCHANGED <<filter, include_ignored, skip, succeeded, filtered, ignored,
                   failures, remaining, running, formatter, tests, output, cap,
                   todo, i, test, verdict, suspended, emitted, calls, completed>>

\* Variant of Loop1Got: a finished test is retired but left in running
Loop1GotKeep ==
    /\ pc = "got1"
    /\ IF polled.kind = "Pending"
       THEN UNCHANGED <<formatter, succeeded, failures>>
       ELSE LogTestResult(running[i], IntoTestResult(polled))
    /\ i' = i - 1
    /\ pc' = IF i - 1 = 0 THEN "loop2" ELSE "loop1"
    /\ UNCHANGED <<filter, include_ignored, skip, filtered, ignored, remaining,
                   running, tests, output, current_output, cap, todo, test,
                   from, future_output, invoked, polled, verdict, suspended,
                   emitted, calls,
                   resumed, completed>>

\* first loop: Pending => continue; Ready => running.remove(i) and log_test_result
Loop1Got ==
    /\ pc = "got1"
    /\ IF polled.kind = "Pending"
       THEN UNCHANGED <<running, formatter, succeeded, failures>>
       ELSE /\ running' = Remove(running, i)
            /\ LogTestResult(running[i], IntoTestResult(polled))
    /\ i' = i - 1
    /\ pc' = IF i - 1 = 0 THEN "loop2" ELSE "loop1"
    /\ UNCHANGED <<filter, include_ignored, skip, filtered, ignored, remaining,
                   tests, output, current_output, cap, todo, test, from,
                   future_output, invoked, polled, verdict, suspended, emitted,
                   calls,
                   resumed, completed>>

\* Variant of Loop2Pop: the loop condition is running.len() <= CONCURRENCY
Loop2PopOffByOne ==
    /\ pc = "loop2"
    /\ Len(running) <= cap
    /\ remaining # <<>>
    /\ test' = remaining[Len(remaining)]
    /\ remaining' = SubSeq(remaining, 1, Len(remaining) - 1)
    /\ from' = "loop2"
    /\ TestFutureEnter(remaining[Len(remaining)])
    /\ UNCHANGED <<filter, include_ignored, skip, succeeded, filtered, ignored,
                   failures, running, formatter, tests, output, cap, todo, i,
                   verdict, suspended, emitted, calls, completed>>

\* Variant of Loop2Pop: the Test is taken from the front of remaining
Loop2PopFront ==
    /\ pc = "loop2"
    /\ Len(running) < cap
    /\ remaining # <<>>
    /\ test' = Head(remaining)
    /\ remaining' = Tail(remaining)
    /\ from' = "loop2"
    /\ TestFutureEnter(Head(remaining))
    /\ UNCHANGED <<filter, include_ignored, skip, succeeded, filtered, ignored,
                   failures, running, formatter, tests, output, cap, todo, i,
                   verdict, suspended, emitted, calls, completed>>

\* second loop: while running.len() < CONCURRENCY, remaining.pop() and poll
Loop2Pop ==
    /\ pc = "loop2"
    /\ Len(running) < cap
    /\ remaining # <<>>
    /\ test' = remaining[Len(remaining)]
    /\ remaining' = SubSeq(remaining, 1, Len(remaining) - 1)
    /\ from' = "loop2"
    /\ TestFutureEnter(remaining[Len(remaining)])
    /\ UNCHANGED <<filter, include_ignored, skip, succeeded, filtered, ignored,
                   failures, running, formatter, tests, output, cap, todo, i,
                   verdict, suspended, emitted, calls, completed>>

\* Variant of Loop2Got: a test that completes in its first resumption is put
\* into running, to be retired by the first loop of the next resumption
Loop2GotDefer ==
    /\ pc = "got2"
    /\ running' = Append(running, test)
    /\ UNCHANGED <<formatter, succeeded, failures>>
    /\ test' = 0
    /\ pc' = "loop2"
    /\ UNCHANGED <<filter, include_ignored, skip, filtered, ignored, remaining,
                   tests, output, current_output, cap, todo, i, from,
                   future_output, invoked, polled, verdict, suspended, emitted,
                   calls, resumed, completed>>

\* Variant of Loop2Got: a test that suspends in its first resumption is dropped
Loop2GotDrop ==
    /\ pc = "got2"
    /\ IF polled.kind = "Pending"
       THEN UNCHANGED <<running, formatter, succeeded, failures>>
       ELSE /\ LogTestResult(test, IntoTestResult(polled))
            /\ UNCHANGED running
    /\ test' = 0
    /\ pc' = "loop2"
    /\ UNCHANGED <<filter, include_ignored, skip, filtered, ignored, remaining,
                   tests, output, current_output, cap, todo, i, from,
                   future_output, invoked, polled, verdict, suspended, emitted,
                   calls,
                   resumed, completed>>

\* second loop: Pending => running.push(test); Ready => log_test_result
Loop2Got ==
    /\ pc = "got2"
    /\ IF polled.kind = "Pending"
       THEN /\ running' = Append(running, test)
            /\ UNCHANGED <<formatter, succeeded, failures>>
       ELSE /\ LogTestResult(test, IntoTestResult(polled))
            /\ UNCHANGED running
    /\ test' = 0
    /\ pc' = "loop2"
    /\ UNCHANGED <<filter, include_ignored, skip, filtered, ignored, remaining,
                   tests, output, current_output, cap, todo, i, from,
                   future_output, invoked, polled, verdict, suspended, emitted,
                   calls,
                   resumed, completed>>

\* Variant of Yield: Pending is returned as soon as running is not empty,
\* without the second loop having run to its end
YieldEarly ==
    /\ pc = "loop2"
    /\ Len(running) # 0
    /\ pc' = "pending"
    /\ resumed' = {}
    /\ UNCHANGED <<filter, include_ignored, skip, succeeded, filtered, ignored,
                   failures, remaining, running, formatter, tests, output,
                   current_output, cap, todo, i, test, from, future_output,
                   invoked, polled, verdict, suspended, emitted, calls, completed>>

\* Variant of Yield: the report is rendered before Poll::Pending is returned
YieldReporting ==
    /\ pc = "loop2"
    /\ ~(Len(running) < cap /\ remaining # <<>>)
    /\ Len(running) # 0
    /\ formatter' = formatter \o PrintResults
    /\ pc' = "pending"
    /\ resumed' = {}
    /\ UNCHANGED <<filter, include_ignored, skip, succeeded, filtered, ignored,
                   failures, remaining, running, tests, output,
                   current_output, cap, todo, i, test, from, future_output,
                   invoked, polled, verdict, suspended, emitted, calls, completed>>

\* the second loop is left and running is not empty: return Poll::Pending
Yield ==
    /\ pc = "loop2"
    /\ ~(Len(running) < cap /\ remaining # <<>>)
    /\ Len(running) # 0
    /\ pc' = "pending"
    /\ resumed' = {}
    /\ UNCHANGED <<filter, include_ignored, skip, succeeded, filtered, ignored,
                   failures, remaining, running, formatter, tests, output,
                   current_output, cap, todo, i, test, from, future_output,
                   invoked, polled, verdict, suspended, emitted, calls, completed>>

\* Variant of Resolve: all_passed is taken from the succeeded counter
ResolveBySucceeded ==
    /\ pc = "loop2"
    /\ ~(Len(running) < cap /\ remaining # <<>>)
    /\ Len(running) = 0
    /\ IF Len(remaining) # 0
       THEN /\ pc' = "assert_failed"
            /\ UNCHANGED <<formatter, verdict>>
       ELSE /\ formatter' = formatter \o PrintResults
            /\ verdict' = IF succeeded > 0 THEN "true" ELSE "false"
            /\ pc' = "done"
    /\ resumed' = {}
    /\ UNCHANGED <<filter, include_ignored, skip, succeeded, filtered, ignored,
                   failures, remaining, running, tests, output, current_output,
                   cap, todo, i, test, from, future_output, invoked, polled,
                   suspended, emitted, calls, completed>>

\* Variant of Resolve: the failures are taken out of the State as they are
\* reported
ResolveDraining ==
    /\ pc = "loop2"
    /\ ~(Len(running) < cap /\ remaining # <<>>)
    /\ Len(running) = 0
    /\ IF Len(remaining) # 0
       THEN /\ pc' = "assert_failed"
            /\ UNCHANGED <<formatter, verdict, failures>>
       ELSE /\ formatter' = formatter \o PrintResults
            /\ failures' = <<>>
            /\ verdict' = IF Len(failures) = 0 THEN "true" ELSE "false"
            /\ pc' = "done"
    /\ resumed' = {}
    /\ UNCHANGED <<filter, include_ignored, skip, succeeded, filtered, ignored,
                   remaining, running, tests, output, current_output,
                   cap, todo, i, test, from, future_output, invoked, polled,
                   suspended, emitted, calls, completed>>

\* the second loop is left and running is empty: assert_eq!(remaining.len(), 0),
\* print_results, Poll::Ready(all_passed)
Resolve ==
    /\ pc = "loop2"
    /\ ~(Len(running) < cap /\ remaining # <<>>)
    /\ Len(running) = 0
    /\ IF Len(remaining) # 0
       THEN /\ pc' = "assert_failed"
            /\ UNCHANGED <<formatter, verdict>>
       ELSE /\ formatter' = formatter \o PrintResults
            /\ verdict' = IF Len(failures) = 0 THEN "true" ELSE "false"
            /\ pc' = "done"
    /\ resumed' = {}
    /\ UNCHANGED <<filter, include_ignored, skip, succeeded, filtered, ignored,
                   failures, remaining, running, tests, output, current_output,
                   cap, todo, i, test, from, future_output, invoked, polled,
                   suspended, emitted, calls, completed>>

-----------------------------------------------------------------------------

\* one resumption of ExecuteTests::poll and of the TestFuture::poll calls in it
Schedule ==
    \/ PollBegin
    \/ Loop1Poll
    \/ Loop1Got
    \/ Loop2Pop
    \/ Loop2Got
    \/ Yield
    \/ Resolve
    \/ TestFutureReturn

Next ==
    \/ \E f \in Filters : Filter(f)
    \/ \E n \in 0..MaxTests : Run(n)
    \/ \E d \in Descriptors : Execute(d)
    \/ Spawn
    \/ Schedule
    \/ BodyPending
    \/ BodyReadyOk
    \/ \E e \in JsErrors : BodyReadyErr(e)
    \/ \E m \in PanicMessages : BodyPanic(m)

Spec == Init /\ [][Next]_vars

\* the registration policy: configuration, run and execute
NextReg ==
    \/ \E b \in BOOLEAN : IncludeIgnored(b)
    \/ \E list \in RegSkipLists : Skip(list)
    \/ \E f \in RegFilters : Filter(f)
    \/ \E n \in 0..MaxRegs : Run(n)
    \/ \E d \in RegDescriptors : Execute(d)
    \/ Spawn

SpecReg == Init /\ [][NextReg]_vars

\* the output capture: console calls and panics during and between resumptions
NextOut ==
    \/ \E n \in 0..MaxOutTests : Run(n)
    \/ \E d \in OutDescriptors : Execute(d)
    \/ Spawn
    \/ Schedule
    \/ BodyPending
    \/ BodyReadyOk
    \/ \E e \in JsErrors : BodyReadyErr(e)
    \/ \E m \in OutPanicMessages : BodyPanic(m)
    \/ \E a \in ArgLists : __wbgtest_console_log(a)
    \/ \E a \in ArgLists : __wbgtest_console_debug(a)
    \/ \E a \in ArgLists : __wbgtest_console_info(a)
    \/ \E a \in ArgLists : __wbgtest_console_warn(a)
    \/ \E a \in ArgLists : __wbgtest_console_error(a)

SpecOut == Init /\ [][NextOut]_vars

-----------------------------------------------------------------------------
(* The properties *)

\* ExecuteTests::poll is about to return: both loops are done
LeavingPoll == pc = "loop2" /\ pc' \notin {"loop2", "body"}

(* C1: every resumption of ExecuteTests::poll returns Pending iff running is *)
(* not empty after its two loops; it resolves only with remaining and        *)
(* running both empty, and with true iff failures is empty then.             *)
C1_Completion ==
    /\ [][LeavingPoll => /\ (pc' = "pending") = (Len(running) # 0)
                         /\ (pc' = "done") = (Len(running) = 0)
                         /\ pc' = "done" =>
                               /\ Len(remaining) = 0
                               /\ (verdict' = "true") = (Len(failures) = 0)
                               /\ (verdict' = "false") = (Len(failures) # 0)]_vars
    /\ [](verdict # "none" <=> pc = "done")
    /\ [](pc = "done" => Len(remaining) = 0 /\ Len(running) = 0)

\* a run that yielded at least once and resolved with false beside a success
C1_Witness ==
    /\ pc = "done"
    /\ verdict = "false"
    /\ succeeded > 0
    /\ \E t \in DOMAIN suspended : suspended[t] > 0

(* C2: in every state, also inside a resumption of ExecuteTests::poll,       *)
(* running holds at most CONCURRENCY entries.                                *)
C2_ConcurrencyCap == Len(running) <= cap

\* the cap is reached while a test is still waiting in remaining
C2_Witness ==
    /\ Len(running) = cap
    /\ cap > CONCURRENCY
    /\ Len(remaining) > 0
    /\ pc = "pending"

\* the tests of the failure records, in order
FailedTests == [k \in 1..Len(failures) |-> failures[k].test]

NoDuplicates(s) == \A a, b \in 1..Len(s) : a # b => s[a] # s[b]

\* the local `test` of ExecuteTests::poll, when it holds a Test
Held == IF test = 0 THEN <<>> ELSE <<test>>

(* C3, as claimed: in every state each test that called Context::execute is  *)
(* in exactly one of: the filtered counter, the ignored counter, remaining,  *)
(* running, the succeeded counter, failures.                                 *)
C3_Original ==
    /\ Len(calls) = filtered + ignored + Len(remaining) + Len(running)
                    + succeeded + Len(failures)
    /\ NoDuplicates(remaining \o running \o FailedTests)

(* C3, amended: a test is also accounted for while the second loop of        *)
(* ExecuteTests::poll holds it in its local `test`, from remaining.pop() to  *)
(* running.push(test) or log_test_result, that is during its first           *)
(* resumption.  With that seventh place every test is in exactly one place;  *)
(* whenever the loop has yielded or resolved the local is empty, and at      *)
(* completion filtered + ignored + succeeded + |failures| = registrations.   *)
C3_Accounting ==
    /\ Len(calls) = filtered + ignored + Len(remaining) + Len(running) + Len(Held)
                    + succeeded + Len(failures)
    /\ NoDuplicates(remaining \o running \o Held \o FailedTests)
    /\ \A k \in 1..Len(remaining \o running \o Held \o FailedTests) :
           (remaining \o running \o Held \o FailedTests)[k] \in DOMAIN tests
    /\ Cardinality(DOMAIN tests) = Len(remaining) + Len(running) + Len(Held)
                                   + succeeded + Len(failures)
    /\ pc \in {"pending", "done"} => test = 0
    /\ pc = "done" => filtered + ignored + succeeded + Len(failures) = Len(calls)

\* one test filtered or ignored, one suspended in running, and one held by
\* the second loop while its body runs
C3_Witness ==
    /\ pc = "body"
    /\ test # 0
    /\ Len(running) > 0
    /\ filtered + ignored > 0

IsPrefix(s, t) == Len(s) <= Len(t) /\ SubSeq(t, 1, Len(s)) = s

Streams == {"debug", "log", "info", "warn", "error", "panic"}

\* buffer new is buffer old with text appended to at least one stream
Appended(old, new) ==
    /\ \A f \in Streams : IsPrefix(old[f], new[f])
    /\ \E f \in Streams : Len(new[f]) > Len(old[f])
    /\ new.should_panic = old.should_panic

\* a console call made, or a panic raised, by the body being resumed
EmissionWhileResumed ==
    /\ pc = "body"
    /\ \/ emitted' # emitted
       \/ pc' = "invoked" /\ ~invoked'.ok

(* C4: a console call or a panic message that occurs while test A is being  *)
(* resumed is appended to A's Output and to no other test's, for every       *)
(* interleaving of resumptions the cap allows (caps 1 and 2).                *)
C4_Isolation ==
    [][EmissionWhileResumed =>
          /\ Appended(output[Polling], output'[Polling])
          /\ \A b \in DOMAIN output : b # Polling => output'[b] = output[b]]_vars

\* two tests in flight; the later registered one wrote to error during its
\* first resumption, the other writes to log when it is resumed again
C4_Witness ==
    /\ cap > CONCURRENCY
    /\ pc = "body"
    /\ from = "loop1"
    /\ Len(running) = 2
    /\ i = 1
    /\ output[running[1]].log # <<>>
    /\ output[running[1]].error = <<>>
    /\ output[running[2]].error # <<>>
    /\ output[running[2]].log = <<>>

(* C5: CURRENT_OUTPUT holds a test's Output exactly during one               *)
(* TestFuture::poll of that test: it is installed before the body is         *)
(* invoked and not set once poll has returned, whether the body completed,   *)
(* suspended or aborted.  So it is not set when ExecuteTests::poll has       *)
(* yielded or resolved.                                                      *)
C5_CaptureScope ==
    /\ pc \in {"body", "invoked"} => current_output = Polling
    /\ pc \notin {"body", "invoked"} => current_output = NotSet

\* TestFuture::poll has just returned from an intercepted abort, after
\* another test suspended and one completed
C5_Witness ==
    /\ pc \in {"got1", "got2"}
    /\ ~invoked.ok
    /\ polled = PollReadyErr(TrapError)
    /\ current_output = NotSet
    /\ succeeded > 0
    /\ \E t \in DOMAIN suspended : suspended[t] > 0

\* the Test that the step of ExecuteTests::poll after a poll deals with
Got == IF pc = "got1" THEN running[i] ELSE test

InSeq(x, s) == \E k \in 1..Len(s) : s[k] = x

(* C6: a panic during a resumption of a test's body appends the message to   *)
(* that test's panic stream, the wrapper returns Ready(Err), the test is     *)
(* retired by log_test_result, and ExecuteTests::poll goes on with the       *)
(* other tests: the run is not terminated.                                   *)
C6_PanicIsFailure ==
    /\ [][(pc = "body" /\ pc' = "invoked" /\ ~invoked'.ok) =>
             /\ IsPrefix(output[Polling].panic, output'[Polling].panic)
             /\ Len(output'[Polling].panic) > Len(output[Polling].panic)]_vars
    /\ [][(pc = "invoked" /\ ~invoked.ok) =>
             /\ polled' = PollReadyErr(invoked.err)
             /\ pc' \in {"got1", "got2"}]_vars
    /\ [][(pc \in {"got1", "got2"} /\ ~invoked.ok) =>
             /\ ~InSeq(Got, running')
             /\ ~InSeq(Got, remaining')
             /\ test' = 0
             /\ Len(formatter') = Len(formatter) + 1
             /\ formatter'[Len(formatter')].line = "log_test"
             /\ formatter'[Len(formatter')].name = tests[Got].name
             /\ succeeded' + Len(failures') = succeeded + Len(failures) + 1
             /\ pc' \in {"loop1", "loop2"}]_vars
    /\ [](pc \notin {"thrown", "assert_failed"})
    /\ [](pc = "done" => Cardinality(DOMAIN tests) = succeeded + Len(failures))

\* a run that resolved after a test panicked and a later one passed
C6_Witness ==
    /\ pc = "done"
    /\ \E t \in DOMAIN output : output[t].panic # <<>>
    /\ \E k, j \in 1..Len(formatter) :
          /\ k < j
          /\ formatter[k].text = "FAIL"
          /\ formatter[j].text = "ok"

\* sub is a substring of s: s is some text, then sub, then some text
IsSubstringOf(sub, s) ==
    \E a \in 0..Len(s) : \E b \in a..Len(s) : SubSeq(s, a + 1, b) = sub

\* raw with everything up to and including the first "::" removed
AfterFirstSeparator(raw) ==
    LET at == {k \in 1..(Len(raw) - 1) : raw[k] = ":" /\ raw[k + 1] = ":"}
        first == CHOOSE k \in at : \A j \in at : k <= j
    IN  SubSeq(raw, first + 2, Len(raw))

FilterAdmits(name) == filter.some => IsSubstringOf(filter.val, name)
SkipHits(name) == \E j \in 1..Len(skip) : IsSubstringOf(skip[j], name)

\* Context::execute has just been called with the descriptor Registered
Registering == Len(calls') = Len(calls) + 1
Registered == calls'[Len(calls')]

(* C7, as claimed: a test is pushed onto remaining by Context::execute iff   *)
(* the filter is a substring of its normalized name; with no filter or an    *)
(* empty one every test is pushed.                                           *)
C7_Original ==
    \A k \in 1..Len(calls) :
        (k \in DOMAIN tests) <=> FilterAdmits(AfterFirstSeparator(calls[k].name))

(* C7, amended: for a test whose normalized name contains no skip substring  *)
(* and that is not ignored (no ignore annotation, or include_ignored set),   *)
(* the test is pushed onto remaining iff no filter is configured or the      *)
(* filter is a substring of its normalized name (an empty filter is one of   *)
(* every name); a test whose normalized name does not contain the filter is  *)
(* never pushed.                                                             *)
C7_Filter ==
    \A k \in 1..Len(calls) :
        LET name == AfterFirstSeparator(calls[k].name)
            exempt == \/ SkipHits(name)
                      \/ calls[k].ignore.kind # "none" /\ ~include_ignored
        IN  /\ ~exempt => ((k \in DOMAIN tests) <=> FilterAdmits(name))
            /\ ~FilterAdmits(name) => k \notin DOMAIN tests
            /\ k \in DOMAIN tests => InSeq(k, remaining) /\ tests[k].name = name

\* under the filter "a", a::b was filtered out and m::ab pushed
C7_Witness ==
    /\ filter = SomeFilter(<<"a">>)
    /\ skip = <<>>
    /\ Len(calls) = 2
    /\ calls[1].name = <<"a", ":", ":", "b">>
    /\ filtered = 1
    /\ remaining = <<2>>

(* C8: a test whose (normalized) name contains one of the skip substrings   *)
(* is not pushed onto remaining and adds exactly one to the filtered         *)
(* counter, whether or not a filter is configured or matches.                *)
C8_Skip ==
    [][(Registering /\ SkipHits(AfterFirstSeparator(Registered.name))) =>
          /\ filtered' = filtered + 1
          /\ remaining' = remaining
          /\ tests' = tests
          /\ ignored' = ignored
          /\ formatter' = formatter]_vars

\* a test that the filter admits and that two skip substrings match
C8_Witness ==
    /\ filter = SomeFilter(<<"a">>)
    /\ Len(skip) = 2
    /\ Len(calls) = 1
    /\ \A j \in 1..2 : IsSubstringOf(skip[j], AfterFirstSeparator(calls[1].name))
    /\ FilterAdmits(AfterFirstSeparator(calls[1].name))
    /\ filtered = 1
    /\ remaining = <<>>

(* C9: a test that passes filter and skip and carries an ignore annotation   *)
(* is, with include_ignored false, not pushed: one "ignored" line goes to    *)
(* the formatter and the ignored counter grows by one.  With include_ignored *)
(* true it is pushed onto remaining like any other test and the ignored      *)
(* counter does not change.                                                  *)
C9_Ignore ==
    [][(/\ Registering
        /\ FilterAdmits(AfterFirstSeparator(Registered.name))
        /\ ~SkipHits(AfterFirstSeparator(Registered.name))
        /\ Registered.ignore.kind # "none") =>
          IF ~include_ignored
          THEN /\ ignored' = ignored + 1
               /\ Len(formatter') = Len(formatter) + 1
               /\ SubSeq(formatter', 1, Len(formatter)) = formatter
               /\ formatter'[Len(formatter')].line = "log_test"
               /\ formatter'[Len(formatter')].name = AfterFirstSeparator(Registered.name)
               /\ formatter'[Len(formatter')].text \in {"ignored", "ignored, {}"}
               /\ formatter'[Len(formatter')].arg = Registered.ignore.text
               /\ remaining' = remaining
               /\ tests' = tests
               /\ filtered' = filtered
          ELSE /\ ignored' = ignored
               /\ formatter' = formatter
               /\ filtered' = filtered
               /\ remaining' = Append(remaining, Len(calls'))
               /\ tests'[Len(calls')] =
                      [name |-> AfterFirstSeparator(Registered.name),
                       should_panic |-> Registered.should_panic]
               /\ output'[Len(calls')] =
                      NewOutput(Registered.should_panic.kind # "none")]_vars

\* an annotated test with a reason was reported as ignored under a filter
\* that admits it
C9_Witness ==
    /\ ~include_ignored
    /\ filter.some
    /\ Len(calls) = 1
    /\ calls[1].ignore = OptWith(<<"r">>)
    /\ ignored = 1
    /\ formatter[Len(formatter)].text = "ignored, {}"
    /\ formatter[Len(formatter)].arg = <<"r">>
    /\ remaining = <<>>

\* ExecuteTests::poll is about to retire the Test Got, whose poll was Ready
Retiring == pc \in {"got1", "got2"} /\ polled.kind = "Ready"

\* the formatter is handed one more line, a log_test of name with status text
LogsTest(name, text) ==
    /\ Len(formatter') = Len(formatter) + 1
    /\ SubSeq(formatter', 1, Len(formatter)) = formatter
    /\ formatter'[Len(formatter')].line = "log_test"
    /\ formatter'[Len(formatter')].name = name
    /\ formatter'[Len(formatter')].text = text

(* C10: a test annotated should_panic without an expected substring is       *)
(* retired as a success (succeeded + 1, "ok" logged, no failure record) iff  *)
(* its body completed with an error; if it completed Ok, one record          *)
(* Failure::ShouldPanic is appended, "FAIL" is logged, and the run resolves  *)
(* with false.                                                               *)
C10_ShouldPanicBare ==
    /\ [][(Retiring /\ tests[Got].should_panic.kind = "bare") =>
             IF ~polled.ok
             THEN /\ succeeded' = succeeded + 1
                  /\ failures' = failures
                  /\ LogsTest(tests[Got].name, "ok")
             ELSE /\ succeeded' = succeeded
                  /\ Len(failures') = Len(failures) + 1
                  /\ SubSeq(failures', 1, Len(failures)) = failures
                  /\ failures'[Len(failures')].test = Got
                  /\ failures'[Len(failures')].failure = "ShouldPanic"
                  /\ LogsTest(tests[Got].name, "FAIL")]_vars
    /\ []((pc = "done" /\ \E k \in 1..Len(failures) : failures[k].failure = "ShouldPanic")
            => verdict = "false")

\* a resolved run in which one should_panic test completed Ok, the only
\* failure, and another one passed by completing with an error
C10_Witness ==
    /\ pc = "done"
    /\ verdict = "false"
    /\ Len(failures) = 1
    /\ failures[1].failure = "ShouldPanic"
    /\ \E t \in DOMAIN tests :
          /\ tests[t].should_panic.kind = "bare"
          /\ t # failures[1].test
    /\ \A t \in DOMAIN tests : tests[t].should_panic.kind = "bare"
    /\ succeeded = 1

\* failures is handed one more record, of the given kind, for the Test Got
PushesFailure(kind) ==
    /\ Len(failures') = Len(failures) + 1
    /\ SubSeq(failures', 1, Len(failures)) = failures
    /\ failures'[Len(failures')].test = Got
    /\ failures'[Len(failures')].failure = kind

(* C11: a test annotated should_panic with an expected substring is retired  *)
(* as a success iff its body completed with an error and the panic stream of *)
(* its own Output contains the substring; an error without the substring     *)
(* appends one Failure::ShouldPanicExpected, completion with Ok appends one  *)
(* Failure::ShouldPanic; both log "FAIL" and leave succeeded alone.          *)
C11_ShouldPanicExpected ==
    [][(Retiring /\ tests[Got].should_panic.kind = "with") =>
          IF ~polled.ok /\ IsSubstringOf(tests[Got].should_panic.text, output[Got].panic)
          THEN /\ succeeded' = succeeded + 1
               /\ failures' = failures
               /\ LogsTest(tests[Got].name, "ok")
          ELSE /\ succeeded' = succeeded
               /\ PushesFailure(IF polled.ok THEN "ShouldPanic"
                                 ELSE "ShouldPanicExpected")
               /\ LogsTest(tests[Got].name, "FAIL")]_vars

\* a resolved run of two tests expecting "a": one panicked with "ba" and
\* passed, the other panicked with "b" and is the only failure
C11_Witness ==
    /\ pc = "done"
    /\ succeeded = 1
    /\ Len(failures) = 1
    /\ failures[1].failure = "ShouldPanicExpected"
    /\ output[failures[1].test].panic = <<"b">>
    /\ \E t \in DOMAIN tests :
          /\ t # failures[1].test
          /\ tests[t].should_panic = OptWith(<<"a">>)
          /\ output[t].panic = <<"b", "a">>

(* C12: for a test without a should_panic annotation, retirement with Ok     *)
(* adds exactly one to succeeded and leaves failures alone; retirement with  *)
(* Err appends exactly one Failure::Error holding that error value and       *)
(* leaves succeeded alone; one result line, "ok" or "FAIL", is logged.       *)
C12_PlainRetirement ==
    [][(Retiring /\ tests[Got].should_panic.kind = "none") =>
          IF polled.ok
          THEN /\ succeeded' = succeeded + 1
               /\ failures' = failures
               /\ LogsTest(tests[Got].name, "ok")
          ELSE /\ succeeded' = succeeded
               /\ PushesFailure("Error")
               /\ failures'[Len(failures')].err = polled.err
               /\ LogsTest(tests[Got].name, "FAIL")]_vars

\* a resolved run of unannotated tests: one returned the error "e", one was
\* aborted by a panic, one passed
C12_Witness ==
    /\ pc = "done"
    /\ \A t \in DOMAIN tests : tests[t].should_panic.kind = "none"
    /\ succeeded = 1
    /\ Len(failures) = 2
    /\ \E k \in 1..2 : failures[k] = Failure(failures[k].test, "Error", "e")
    /\ \E k \in 1..2 : failures[k] = Failure(failures[k].test, "Error", TrapError)

-----------------------------------------------------------------------------
(* Liveness.  Context::run is one synchronous call, a resumption of         *)
(* ExecuteTests::poll is sequential code, a resumed body returns, and the    *)
(* host polls the future again after a wake: every step but the choice to    *)
(* configure or start a run is taken when it stays possible.  A body         *)
(* suspends at most MaxSuspend times, so it completes after finitely many    *)
(* resumptions.                                                              *)

MaxLiveTests == 3  \* SpecLive: descriptors handed to one run

LiveDescriptors ==
    [name : { <<"m", ":", ":", "a">> },
     should_panic : { OptNone, OptBare },
     ignore : { OptNone }]

Progress ==
    \/ \E d \in LiveDescriptors : Execute(d)
    \/ Spawn
    \/ Schedule
    \/ BodyPending
    \/ BodyReadyOk
    \/ \E e \in JsErrors : BodyReadyErr(e)
    \/ \E m \in PanicMessages : BodyPanic(m)

NextLive ==
    \/ \E n \in 0..MaxLiveTests : Run(n)
    \/ Progress

SpecLive == Init /\ [][NextLive]_vars /\ WF_vars(Progress)

\* the run has resolved and every Test built by execute has been retired
Resolved ==
    /\ pc = "done"
    /\ verdict # "none"
    /\ remaining = <<>>
    /\ running = <<>>
    /\ test = 0
    /\ succeeded + Len(failures) = Cardinality(DOMAIN tests)
    /\ Cardinality(DOMAIN tests) = Len(calls)

(* C13: when every body completes after finitely many resumptions and the    *)
(* host polls ExecuteTests again after every wake, a started run eventually  *)
(* resolves, and by then every test pushed onto remaining has been admitted  *)
(* and retired: none is left in remaining or running, none is dropped.       *)
C13_Liveness == (pc = "run") ~> Resolved

\* a resolved run under cap 1 in which a test suspended as often as a body
\* may while two others waited in remaining
C13_Witness ==
    /\ Resolved
    /\ cap = CONCURRENCY
    /\ Len(calls) = MaxLiveTests
    /\ \E t \in DOMAIN suspended : suspended[t] = MaxSuspend

-----------------------------------------------------------------------------

\* the summary line that ends what print_results writes
IsSummary(l) == l.line = "writeln" /\ Len(l.nums) = 4

\* where the formatter was handed a summary line
SummaryLines(f) == {k \in 1..Len(f) : IsSummary(f[k])}

(* C14: print_results is rendered exactly once in a run that resolves, in    *)
(* the resumption of ExecuteTests::poll that resolves it, for either         *)
(* verdict, and never while a test is in remaining, in running or held by    *)
(* the loop.                                                                 *)
C14_ReportOnce ==
    /\ [](Cardinality(SummaryLines(formatter)) = IF pc = "done" THEN 1 ELSE 0)
    /\ [](SummaryLines(formatter) # {} =>
             /\ remaining = <<>>
             /\ running = <<>>
             /\ test = 0
             /\ IsSummary(formatter[Len(formatter)])
             /\ verdict \in {"true", "false"}
             /\ formatter[Len(formatter)].arg =
                    (IF verdict = "true" THEN <<"ok">> ELSE <<"FAILED">>))
    /\ [][SummaryLines(formatter') # SummaryLines(formatter) =>
             /\ pc = "loop2"
             /\ pc' = "done"
             /\ verdict = "none"
             /\ verdict' # "none"
             /\ formatter' = formatter \o PrintResults]_vars

\* a run that yielded before it resolved with false: one report, the failure
\* listed in it before the summary
C14_Witness ==
    /\ pc = "done"
    /\ verdict = "false"
    /\ Cardinality(SummaryLines(formatter)) = 1
    /\ \E k \in 1..Len(formatter) : formatter[k].text = "failures:\n"
    /\ \E t \in DOMAIN suspended : suspended[t] > 0
    /\ Len(failures) = 1

\* the second loop of ExecuteTests::poll takes a Test from remaining
Admitting == pc = "loop2" /\ pc' = "body"

(* C15: tests are admitted from remaining in last-registered-first order:    *)
(* the test the scheduler admits is the most recently registered one still   *)
(* in remaining, and it is admitted only while running holds fewer entries   *)
(* than the cap.  Test ids are the positions of the registrations.           *)
C15_LifoAdmission ==
    [][Admitting =>
          /\ InSeq(test', remaining)
          /\ \A k \in 1..Len(remaining) : remaining[k] <= test'
          /\ ~InSeq(test', remaining')
          /\ Len(remaining') = Len(remaining) - 1
          /\ \A k \in 1..Len(remaining') : InSeq(remaining'[k], remaining)
          /\ Len(running) < cap]_vars

\* of three tests the third was admitted and suspended, the second is being
\* admitted and the first still waits
C15_Witness ==
    /\ pc = "body"
    /\ from = "loop2"
    /\ Len(calls) = 3
    /\ running = <<3>>
    /\ test = 2
    /\ remaining = <<1>>

(* C16, as claimed: with cap 1 at most one entry is in running at a time,    *)
(* and unless some test suspends more than once the tests retire in the      *)
(* order of their registration: when a test is retired, every test           *)
(* registered before it has been retired already.                            *)
C16_Original ==
    /\ [](cap = CONCURRENCY => Len(running) <= 1)
    /\ [][(/\ Retiring
           /\ cap = CONCURRENCY
           /\ \A t \in DOMAIN suspended : suspended[t] <= 1) =>
             \A u \in DOMAIN tests : u < Got => ~InSeq(u, remaining)]_vars

(* C16, amended: with cap 1 at most one test is in flight at a time (in      *)
(* running or held by the second loop), and the tests retire in the reverse  *)
(* of their registration order, however often any of them suspends: when a   *)
(* test is retired, every test registered after it has been retired and      *)
(* every test registered before it still waits in remaining.                 *)
C16_Cap1Order ==
    /\ [](cap = CONCURRENCY => Len(running) + Len(Held) <= 1)
    /\ [][(Retiring /\ cap = CONCURRENCY) =>
             \A u \in DOMAIN tests :
                 /\ u < Got => InSeq(u, remaining)
                 /\ u > Got => ~InSeq(u, remaining) /\ ~InSeq(u, running)]_vars

\* a resolved run under cap 1 whose three tests all failed, the last
\* registered first, one of them after suspending twice and one without
\* suspending
C16_Witness ==
    /\ pc = "done"
    /\ cap = CONCURRENCY
    /\ FailedTests = <<3, 2, 1>>
    /\ \E t \in DOMAIN suspended : suspended[t] = 2
    /\ \E t \in DOMAIN suspended : suspended[t] = 0

\* one of the five console entry points is called while CURRENT_OUTPUT is
\* not set
StrayCall == emitted' # emitted /\ current_output = NotSet

Rendering == pc = "loop2" /\ pc' = "done"

(* C18: print_results leaves the succeeded, ignored and filtered counters,   *)
(* failures, remaining, running and every test's Output as they are; the     *)
(* lines it would write from the state it leaves are the lines it wrote.     *)
C18_ReportReadsOnly ==
    [][Rendering =>
          /\ UNCHANGED <<succeeded, ignored, filtered, failures, remaining,
                         running, output, tests>>
          /\ formatter' = formatter \o PrintResults
          /\ PrintResults' = PrintResults]_vars

\* a report of two failures, one with captured console output and one that
\* panicked without the expected text
C18_Witness ==
    /\ pc = "done"
    /\ Len(failures) = 2
    /\ \E k \in 1..2 : output[failures[k].test].log # <<>>
    /\ \E k \in 1..2 : failures[k].failure = "ShouldPanicExpected"
    /\ \E k \in 1..Len(formatter) : formatter[k] = PrintFailure(failures[1])
    /\ IsSummary(formatter[Len(formatter)])

(* C19: in every step of a run the succeeded, ignored and filtered counters  *)
(* do not decrease, and failures only grows at its end: a failure record,    *)
(* once appended, is never removed, moved or modified.                       *)
C19_Monotonic ==
    [][/\ succeeded' >= succeeded
       /\ ignored' >= ignored
       /\ filtered' >= filtered
       /\ IsPrefix(failures, failures')
       /\ Len(failures') <= Len(failures) + 1]_vars

\* a resolved run in which a counter grew and two failures of different
\* kinds were recorded, one after the other
C19_Witness ==
    /\ pc = "done"
    /\ succeeded + ignored + filtered = 1
    /\ Len(failures) = 2
    /\ failures[1].failure # failures[2].failure

\* the second loop of ExecuteTests::poll has ended and running is empty: the
\* point of assert_eq!(remaining.len(), 0)
AtAssertion ==
    /\ pc = "loop2"
    /\ ~(Len(running) < cap /\ remaining # <<>>)
    /\ Len(running) = 0

(* C20: the assertion of ExecuteTests::poll never fails: whenever the        *)
(* second loop has ended with running empty, remaining is empty too, for     *)
(* every cap of at least 1, so the abort is unreachable.                     *)
C20_AssertionHolds ==
    /\ AtAssertion => Len(remaining) = 0
    /\ pc # "assert_failed"

\* the assertion is reached under the largest cap after every test of a full
\* run was admitted and one of them had suspended
C20_Witness ==
    /\ AtAssertion
    /\ cap = MaxCap
    /\ Len(calls) = MaxTests
    /\ Cardinality(DOMAIN tests) = MaxTests
    /\ \E t \in DOMAIN suspended : suspended[t] > 0

-----------------------------------------------------------------------------

\* a pass or fail line, and an ignored line, of Formatter::log_test
ResultLine(l) == l.line = "log_test" /\ l.text \in {"ok", "FAIL"}
IgnoredLine(l) == l.line = "log_test" /\ l.text \in {"ignored", "ignored, {}"}

\* ExecuteTests has been spawned: the scheduler or a test body may run
Scheduling ==
    pc \in {"spawned", "loop1", "loop2", "body", "invoked", "got1", "got2",
            "pending", "done"}

(* C21: Context::execute runs no test body: it adds one to a counter, or     *)
(* adds one to ignored and logs one "ignored" line, or pushes one Test, and  *)
(* nothing else.  ExecuteTests is first resumed only after every descriptor  *)
(* handed to run has been registered, so every "ignored" line precedes every *)
(* step of a body and every pass or fail line.                               *)
C21_EagerRegistration ==
    /\ [][Registering =>
             /\ pc = "run" /\ pc' = "run"
             /\ UNCHANGED <<succeeded, failures, running, current_output, polled,
                            future_output, invoked, verdict, test, i>>
             /\ \A t \in DOMAIN suspended : suspended'[t] = suspended[t]
             /\ \A t \in DOMAIN output : output'[t] = output[t]
             /\ \/ /\ filtered' = filtered + 1
                   /\ UNCHANGED <<ignored, formatter, remaining, tests>>
                \/ /\ ignored' = ignored + 1
                   /\ Len(formatter') = Len(formatter) + 1
                   /\ SubSeq(formatter', 1, Len(formatter)) = formatter
                   /\ IgnoredLine(formatter'[Len(formatter')])
                   /\ UNCHANGED <<filtered, remaining, tests>>
                \/ /\ remaining' = Append(remaining, Len(calls'))
                   /\ suspended'[Len(calls')] = 0
                   /\ UNCHANGED <<filtered, ignored, formatter>>]_vars
    /\ [](Scheduling => todo = 0 /\ Len(calls) = formatter[1].nums[1])
    /\ [](~Scheduling => /\ current_output = NotSet
                         /\ \A t \in DOMAIN suspended : suspended[t] = 0
                         /\ \A k \in 1..Len(formatter) : ~ResultLine(formatter[k]))
    /\ [](\A j, k \in 1..Len(formatter) :
             IgnoredLine(formatter[j]) /\ ResultLine(formatter[k]) => j < k)

\* a resolved run of three descriptors: the second was reported as ignored
\* while the first waited in remaining; the first and the third ran later
C21_Witness ==
    /\ pc = "done"
    /\ Len(calls) = 3
    /\ DOMAIN tests = {1, 3}
    /\ ignored = 1
    /\ IgnoredLine(formatter[2])
    /\ ResultLine(formatter[3])
    /\ ResultLine(formatter[4])
    /\ \E t \in DOMAIN suspended : suspended[t] > 0

(* C22: Context::execute applies filter, then skip, then ignore, and at most *)
(* one counter changes per registration: a test with an ignore annotation    *)
(* that fails the filter or matches a skip substring adds one to filtered    *)
(* only; ignored stays and no "ignored" line is logged, whatever             *)
(* include_ignored is.                                                       *)
C22_PolicyOrder ==
    /\ [][Registering =>
             /\ (filtered' - filtered) + (ignored' - ignored) <= 1
             /\ filtered' >= filtered
             /\ ignored' >= ignored
             /\ (filtered' # filtered \/ ignored' # ignored) => remaining' = remaining
             /\ filtered' # filtered <=>
                    \/ ~FilterAdmits(AfterFirstSeparator(Registered.name))
                    \/ SkipHits(AfterFirstSeparator(Registered.name))]_vars
    /\ [][(/\ Registering
           /\ Registered.ignore.kind # "none"
           /\ \/ ~FilterAdmits(AfterFirstSeparator(Registered.name))
              \/ SkipHits(AfterFirstSeparator(Registered.name))) =>
             /\ filtered' = filtered + 1
             /\ ignored' = ignored
             /\ formatter' = formatter
             /\ remaining' = remaining
             /\ tests' = tests]_vars

\* two annotated tests, one that the filter rejects and one that the filter
\* admits and a skip substring matches: both are counted as filtered only
C22_Witness ==
    /\ Len(calls) = 2
    /\ filter.some
    /\ skip # <<>>
    /\ \A k \in 1..2 : calls[k].ignore.kind # "none"
    /\ ~FilterAdmits(AfterFirstSeparator(calls[1].name))
    /\ FilterAdmits(AfterFirstSeparator(calls[2].name))
    /\ SkipHits(AfterFirstSeparator(calls[2].name))
    /\ filtered = 2
    /\ ignored = 0
    /\ Len(formatter) = 1

\* the pass and fail lines handed to the formatter, in order
ResultLines(f) == SelectSeq(f, ResultLine)

IsFailed(t) == InSeq(t, FailedTests)

(* C23: a test's pass or fail line is written when it is retired, in the     *)
(* resumption of ExecuteTests::poll in which its wrapper returned Ready and  *)
(* before another body is resumed; lines are not held back, and the          *)
(* sequence of pass and fail lines is the order in which the tests           *)
(* completed.                                                                *)
C23_LinesAtRetirement ==
    /\ [][Retiring => \E text \in {"ok", "FAIL"} : LogsTest(tests[Got].name, text)]_vars
    /\ [][ResultLines(formatter') # ResultLines(formatter) => Retiring]_vars
    /\ [](Len(ResultLines(formatter)) =
             IF pc \in {"got1", "got2"} /\ polled.kind = "Ready"
             THEN Len(completed) - 1 ELSE Len(completed))
    /\ [](\A k \in 1..Len(ResultLines(formatter)) :
             ResultLines(formatter)[k].name = tests[completed[k]].name)
    /\ [](pc \notin {"got1", "got2"} => SelectSeq(completed, IsFailed) = FailedTests)

\* under cap 2 the tests registered as 3 and 2 suspended; 2 completed before
\* 3 in the next resumption, then 1 was admitted: three lines in that order
C23_Witness ==
    /\ pc = "done"
    /\ completed = <<2, 3, 1>>
    /\ tests[2].name # tests[3].name
    /\ Len(ResultLines(formatter)) = 3
    /\ ResultLines(formatter)[1].text # ResultLines(formatter)[2].text

(* C24: a test's Output changes only while that test is the one being        *)
(* resumed, and only by appending to its streams; once the test has          *)
(* completed its Output never changes, so the final report shows each        *)
(* failed test's streams as they were at its completion.                     *)
C24_BufferWindow ==
    /\ [][\A t \in DOMAIN output :
             output'[t] # output[t] =>
                 /\ pc = "body"
                 /\ t = Polling
                 /\ current_output = t
                 /\ ~InSeq(t, completed)
                 /\ Appended(output[t], output'[t])]_vars
    /\ [][\A t \in DOMAIN output : InSeq(t, completed) => output'[t] = output[t]]_vars
    /\ [](pc = "done" =>
             \A k \in 1..Len(failures) :
                 formatter[Len(formatter) - Len(PrintResults) + 1 + k]
                     = PrintFailure(failures[k]))

\* a test wrote two records to its log stream, suspended in between, and
\* failed; it has been retired and another test is suspended
C24_Witness ==
    /\ pc = "pending"
    /\ Len(failures) = 1
    /\ LET log == output[failures[1].test].log
       IN  Cardinality({k \in 1..Len(log) : log[k] = "\n"}) = 2
    /\ suspended[failures[1].test] > 0
    /\ InSeq(failures[1].test, completed)
    /\ running # <<>>

(* C25: whenever ExecuteTests::poll has returned Pending, running holds      *)
(* exactly CONCURRENCY entries or remaining is empty: a slot freed by a test *)
(* that completed in the first loop is filled from remaining by the second   *)
(* loop of the same resumption.                                              *)
C25_WorkConserving ==
    pc = "pending" =>
        /\ running # <<>>
        /\ Len(running) = cap \/ remaining = <<>>

\* under cap 2, test 3 completed in the first loop of a later resumption and
\* the slot it left was given to test 1 before the loop yielded
C25_Witness ==
    /\ pc = "pending"
    /\ cap = MaxCap
    /\ Len(calls) = 3
    /\ completed = <<3>>
    /\ suspended[3] > 0
    /\ running = <<2, 1>>
    /\ suspended[1] = 1

\* ExecuteTests::poll calls TestFuture::poll
PollStarts == pc \in {"loop1", "loop2"} /\ pc' = "body"

\* the first loop of ExecuteTests::poll is handling running[i]
HandlingLoop1 == pc = "got1" \/ (pc \in {"body", "invoked"} /\ from = "loop1")

\* the first loop has ended in the resumption in progress
PastLoop1 == pc \in {"loop2", "got2"} \/ (pc \in {"body", "invoked"} /\ from = "loop2")

(* C26: in one resumption of ExecuteTests::poll each test is polled at most  *)
(* once: the first loop polls every test that was in running at the start    *)
(* exactly once (those at an index above i are done, those below are still   *)
(* to come), the second loop polls a test once as it admits it, and so every *)
(* test in running when the loop returns Pending has been polled in that     *)
(* resumption.                                                               *)
C26_PolledOnce ==
    /\ [][PollStarts => /\ Polling' \notin resumed
                        /\ resumed' = resumed \cup {Polling'}]_vars
    /\ [][LeavingPoll => \A k \in 1..Len(running) : running[k] \in resumed]_vars
    /\ [](pc = "loop1" =>
             /\ i \in 1..Len(running)
             /\ \A k \in 1..Len(running) : (running[k] \in resumed) = (k > i))
    /\ [](HandlingLoop1 =>
             /\ i \in 1..Len(running)
             /\ \A k \in 1..Len(running) : (running[k] \in resumed) = (k >= i))
    /\ [](PastLoop1 =>
             /\ \A k \in 1..Len(running) : running[k] \in resumed
             /\ test # 0 => test \in resumed)
    /\ [](\A k \in 1..Len(remaining) : remaining[k] \notin resumed)
    /\ [](pc \in {"new", "run", "spawned", "pending", "done"} => resumed = {})

\* the end of a resumption under cap 2 that polled three tests once each:
\* 2 and 3 in the first loop, where 3 completed, and 1 as it was admitted
C26_Witness ==
    /\ pc = "loop2"
    /\ resumed = {1, 2, 3}
    /\ running = <<2, 1>>
    /\ completed = <<3>>
    /\ suspended[2] = 2
    /\ suspended[3] = 1

(* C27: a test is never polled after its wrapper has returned Ready (for Ok, *)
(* Err or an intercepted abort): it is taken out of running or the local of  *)
(* the loop and retired, exactly once, in the next step, it is in neither    *)
(* queue afterwards, and no later resumption polls it.                       *)
C27_NoPollAfterCompletion ==
    /\ [][PollStarts => ~InSeq(Polling', completed)]_vars
    /\ [][Retiring => /\ completed[Len(completed)] = Got
                      /\ ~InSeq(Got, running')
                      /\ ~InSeq(Got, remaining')
                      /\ test' # Got
                      /\ succeeded' + Len(failures') = succeeded + Len(failures) + 1]_vars
    /\ [](NoDuplicates(completed) /\ NoDuplicates(FailedTests))
    /\ [](\A k \in 1..Len(completed) :
             /\ ~InSeq(completed[k], remaining)
             /\ (InSeq(completed[k], running) \/ test = completed[k]) =>
                    Retiring /\ k = Len(completed) /\ Got = completed[k])
    /\ [](succeeded + Len(failures) =
             IF Retiring THEN Len(completed) - 1 ELSE Len(completed))

\* a resolved run under cap 2 in which three tests completed after
\* suspending: one with Ok, one with Err and one by an intercepted abort
C27_Witness ==
    /\ pc = "done"
    /\ cap = MaxCap
    /\ Len(completed) = 3
    /\ \A t \in DOMAIN suspended : suspended[t] > 0
    /\ succeeded = 1
    /\ \E k \in 1..Len(failures) : failures[k].err = "e"
    /\ \E k \in 1..Len(failures) : failures[k].err = TrapError

-----------------------------------------------------------------------------
(* A run under every part of the configuration: filter, skip and             *)
(* include_ignored decide what execute pushes, and the scheduler runs what   *)
(* was pushed.                                                               *)

NextAll ==
    \/ \E b \in BOOLEAN : IncludeIgnored(b)
    \/ \E list \in RegSkipLists : Skip(list)
    \/ \E f \in Filters : Filter(f)
    \/ \E n \in 0..MaxRegs : Run(n)
    \/ \E d \in Descriptors : Execute(d)
    \/ Spawn
    \/ Schedule
    \/ BodyPending
    \/ BodyReadyOk
    \/ \E e \in JsErrors : BodyReadyErr(e)
    \/ \E m \in PanicMessages : BodyPanic(m)

SpecAll == Init /\ [][NextAll]_vars

\* the two lines print_results writes when there are no failures
CleanReport ==
    << WritelnLine("", <<>>, <<>>, <<>>),
       WritelnLine("test result: {}. {} passed; {} failed; {} ignored; {} filtered out{}\n",
                   <<>>, <<"ok">>, <<0, 0, ignored, filtered>>) >>

(* C28: when execute pushed no test (run was handed no descriptor, or every  *)
(* test was filtered, skipped or ignored), the first resumption of           *)
(* ExecuteTests::poll resolves with true without returning Pending, and      *)
(* print_results still writes the report, with 0 passed and 0 failed.        *)
C28_EmptyRun ==
    /\ [][(pc = "spawned" /\ DOMAIN tests = {} /\ pc' # pc) => pc' = "loop2"]_vars
    /\ [][(pc = "loop2" /\ DOMAIN tests = {}) =>
             /\ pc' = "done"
             /\ verdict' = "true"
             /\ formatter' = formatter \o CleanReport
             /\ UNCHANGED <<succeeded, failures, ignored, filtered>>]_vars
    /\ [](DOMAIN tests = {} =>
             /\ pc \in {"new", "run", "spawned", "loop2", "done"}
             /\ succeeded = 0
             /\ failures = <<>>
             /\ completed = <<>>)
    /\ []((pc = "done" /\ DOMAIN tests = {}) =>
             /\ verdict = "true"
             /\ ignored + filtered = Len(calls)
             /\ SubSeq(formatter, Len(formatter) - 1, Len(formatter)) = CleanReport)

\* a resolved run of two descriptors of which none was pushed: one matched a
\* skip substring and one was ignored
C28_Witness ==
    /\ pc = "done"
    /\ DOMAIN tests = {}
    /\ Len(calls) = 2
    /\ skip # <<>>
    /\ filtered = 1
    /\ ignored = 1
    /\ verdict = "true"

====
